---- MODULE Spec2Model ----
(***************************************************************************)
(* Model of src/agent/agent.py: Server (initialize, list_tools,            *)
(* execute_tool, cleanup) and Agent (cleanup_servers,                      *)
(* _process_llm_response, send), with the completion function of           *)
(* src/agent/llm/azure_ai.py as the environment.                           *)
(*                                                                         *)
(* Python strings built by f-strings are sequences of segments:            *)
(* f"Error executing tool: {e}" is <<"Error executing tool: ", e>>, and a  *)
(* plain text t is <<t>>.                                                  *)
(***************************************************************************)
EXTENDS Integers, Sequences, FiniteSets, TLC

\* ------------------------------------------------------------------ bounds
\* Most servers in a configuration, most completions requested in one send
\* (the loop of the source has no bound of its own), largest `retries`.
MaxServers == 2
MaxTurns == 3
MaxRetries == 3

\* ------------------------------------------------------- program constants
\* execute_tool(..., retries: int = 2, ...)
DefaultRetries == 2

None == "None"
Session == "session"

\* Tools a server of the model may advertise (names from src/server/main.py).
ToolNames == {"list_files", "read_file"}

\* The server configurations a configured list is drawn from: the transport
\* kind (StdioServerConfiguration or HttpServerConfiguration) and the tools the
\* server advertises through session.list_tools().
ServerConfigs ==
    { [kind |-> "stdio", tools |-> {"list_files"}],
      [kind |-> "http", tools |-> {"list_files", "read_file"}] }

\* ------------------------------------------------------------- completions
\* What AzureAIClient.get_response may hand back: a text, or None when the
\* service returns no choices.
DirectiveListFiles == "{\"tool\": \"list_files\", \"arguments\": {\"path\": \".\"}}"
DirectiveReadFile == "{\"tool\": \"read_file\", \"arguments\": {\"path\": \"a\"}}"
Completions ==
    { "end", "Hello there", DirectiveListFiles, DirectiveReadFile,
      "{\"tool\": \"list_files\"}", "{\"tool\": ", "42", "\"end\"",
      "\"tool arguments\"", "[\"tool\", \"arguments\"]", None }
\* The completions drawn during a whole send (a subset, to keep runs of
\* several turns small).
SendCompletions == {"end", "Hello there", DirectiveListFiles, DirectiveReadFile, "42"}

\* json.loads(text): the Python type of the value, "JSONDecodeError" when the
\* text is no JSON document, "TypeError" when the argument is no string.
JsonLoads(text) ==
    CASE text = None -> "TypeError"
      [] text \in {"end", "Hello there", "{\"tool\": "} -> "JSONDecodeError"
      [] text \in {DirectiveListFiles, DirectiveReadFile, "{\"tool\": \"list_files\"}"} -> "dict"
      [] text = "42" -> "int"
      [] text \in {"\"end\"", "\"tool arguments\""} -> "str"
      [] text = "[\"tool\", \"arguments\"]" -> "list"

\* `key in json.loads(text)`: key lookup in a dict, element test in a list,
\* substring test in a str, "TypeError" for an int.
Contains(text, key) ==
    CASE JsonLoads(text) = "dict" ->
             IF key = "tool" THEN "True"
             ELSE IF text \in {DirectiveListFiles, DirectiveReadFile} THEN "True" ELSE "False"
      [] JsonLoads(text) = "list" -> "True"
      [] JsonLoads(text) = "str" -> IF text = "\"tool arguments\"" THEN "True" ELSE "False"
      [] OTHER -> "TypeError"

\* tool_call["tool"]: defined on a dict only (a str or a list raises TypeError).
ToolOf(text) ==
    CASE text = DirectiveListFiles -> "list_files"
      [] text = DirectiveReadFile -> "read_file"
      [] text = "{\"tool\": \"list_files\"}" -> "list_files"
      [] OTHER -> "TypeError"

\* Line 193 handing the whole tool_call to execute_tool as its arguments.
ArgumentsOfWhole(text) == text

\* tool_call["arguments"], as Python shows the value.
ArgumentsOf(text) ==
    CASE text = DirectiveListFiles -> "{'path': '.'}"
      [] text = DirectiveReadFile -> "{'path': 'a'}"
      [] OTHER -> "KeyError"

\* The outcome of the parse of lines 184-187, before any server is consulted.
ParseOutcome(text) ==
    CASE JsonLoads(text) = "JSONDecodeError" -> "plain"
      [] JsonLoads(text) = "TypeError" -> "TypeError"
      [] Contains(text, "tool") = "TypeError" -> "TypeError"
      [] Contains(text, "tool") = "False" -> "plain"
      [] Contains(text, "arguments") = "False" -> "plain"
      [] ToolOf(text) = "TypeError" -> "TypeError"
      [] OTHER -> "directive"

\* ------------------------------------------------------------ tool results
\* Values session.call_tool may return, written as Python shows them.
ResPlain == "files: a.py"
ResProgress == "{'progress': 1, 'total': 2}"
ResZeroTotal == "{'progress': 1, 'total': 0}"
ResNoTotal == "{'progress': 1}"
Results == {ResPlain, ResProgress, ResZeroTotal, ResNoTotal}
ToolErrors == {"ToolError1", "ToolError2"}

\* Lines 195-199: the progress computation, which may itself raise.
ProgressOutcome(result) ==
    CASE result = ResProgress -> "ok"
      [] result = ResZeroTotal -> "division by zero"
      [] result = ResNoTotal -> "'total'"
      [] OTHER -> "ok"

FormatResult(result) == <<"Tool execution result: ", result>>
FormatError(e) == <<"Error executing tool: ", e>>
\* Line 207 without the f-string substitution of the name.
FormatNotFoundNoName(name) == <<"No server found with tool: ", "{tool_call['tool']}">>
FormatNotFound(name) == <<"No server found with tool: ", name>>
EndToken == <<"end">>

\* ------------------------------------------------------------------- state
VARIABLES
    entry,        \* the operation a run exercises: "send", "process", "execute_tool",
                  \* "cleanup"
    config,       \* Agent.config.servers: the configured list, in order
    srv,          \* Agent.servers: per server, session / exit_stack / stdio_context
    pc,           \* position of the control flow
    idx,          \* the server the running `for server in ...` loop is at
    cont,         \* who called cleanup_servers: "except" (line 220), "finally" (line 270)
    pending,      \* what send is about to return or raise once `finally` has run
    messages,     \* send's transcript
    final_res,    \* send's final_res
    llm_response, \* the completion being processed
    res,          \* the value of _process_llm_response
    tool_name,    \* execute_tool's tool_name
    arguments,    \* execute_tool's arguments
    retries,      \* execute_tool's retries
    attempt,      \* execute_tool's attempt
    etOut,        \* execute_tool: the value returned or the exception raised
    cleanup_lock, \* Server._cleanup_lock of the server concurrent callers share
    tasks,        \* the concurrent callers of Server.cleanup, each with its position
    \* history, written only
    initLog,      \* the initialize calls in order: the server, whether it returned,
                  \* how far it got and the exception it raised
    cleanupLog,   \* servers on which Server.cleanup was invoked, in order
    cleanupCalls, \* invocations of Agent.cleanup_servers
    cleanupPost,  \* per server: its state after each Server.cleanup, in order
    released,     \* per server: the transport resources released, in order
    closeFailed,  \* Server.cleanup calls whose aclose() raised (logged, line 145)
    cleanupRaised,\* Server.cleanup calls that raised to their caller
    llmCalls,     \* invocations of the completion function
    listCalls,    \* invocations of session.list_tools
    toolCalls,    \* the call_tool attempts of the current execute_tool call, each with
                  \* the number of the completion that asked for it
    attemptErrs,  \* the failures of those attempts, in order
    nDelays,      \* asyncio.sleep calls of the current execute_tool call
    invoked       \* per tool name: the servers call_tool was ever attempted on

vars ==
    << entry, config, srv, pc, idx, cont, pending, messages, final_res,
       llm_response, res, tool_name, arguments, retries, attempt, etOut,
       cleanup_lock, tasks, initLog,
       cleanupLog, cleanupCalls, cleanupPost, released, closeFailed,
       cleanupRaised, llmCalls, listCalls,
       toolCalls, attemptErrs, nDelays, invoked >>

sendVars == << pending, messages, final_res, llm_response, res >>
execVars == << tool_name, arguments, retries, attempt, etOut, toolCalls, attemptErrs, nDelays, invoked >>
cleanupVars == << cleanupLog, cleanupPost, released, closeFailed, cleanupRaised >>
lockVars == << cleanup_lock, tasks >>

NumServers == Len(config)

\* Server.__init__: no session, an empty exit stack.
IdleServer == [session |-> None, exit_stack |-> <<>>, stdio_context |-> None]

\* The values pending takes.
NoOutcome == [kind |-> "none", val |-> <<>>]
ReturnNone == [kind |-> "return_none", val |-> <<>>]
Return(v) == [kind |-> "return", val |-> v]
Raise(e) == [kind |-> "raise", val |-> <<e>>]

\* The inputs the environment draws from, by the operation exercised.
CompletionsOf(e) == IF e = "send" THEN SendCompletions ELSE Completions
ResultsOf(e) == IF e = "send" THEN {ResPlain} ELSE Results

RECURSIVE Reverse(_)
Reverse(s) == IF s = <<>> THEN <<>> ELSE Append(Reverse(Tail(s)), Head(s))

ConfigLists == UNION { [1..n -> ServerConfigs] : n \in 0..MaxServers }

\* Line 28: asyncio.Lock() starts unlocked with nobody waiting.
FreeLock == [locked |-> FALSE, waiters |-> <<>>]

\* A run with a single flow of control: no concurrent caller of cleanup.
NoTasks ==
    /\ cleanup_lock = FreeLock
    /\ tasks = <<>>

HistoryInit ==
    /\ initLog = <<>>
    /\ cleanupLog = <<>>
    /\ cleanupCalls = 0
    /\ closeFailed = 0
    /\ cleanupRaised = 0
    /\ llmCalls = 0
    /\ listCalls = 0
    /\ toolCalls = <<>>
    /\ attemptErrs = <<>>
    /\ nDelays = 0
    /\ invoked = [t \in ToolNames |-> {}]

\* Agent.__init__ followed by nothing: every server idle, send not yet called.
Init ==
    /\ entry = "send"
    /\ config \in ConfigLists
    /\ srv = [i \in 1..Len(config) |-> IdleServer]
    /\ cleanupPost = [i \in 1..Len(config) |-> <<>>]
    /\ released = [i \in 1..Len(config) |-> <<>>]
    /\ pc = "start"
    /\ idx = 0
    /\ cont = "none"
    /\ pending = NoOutcome
    /\ messages = <<>>
    /\ final_res = <<>>
    /\ llm_response = None
    /\ res = <<>>
    /\ tool_name = None
    /\ arguments = None
    /\ retries = DefaultRetries
    /\ attempt = 0
    /\ etOut = None
    /\ HistoryInit
    /\ NoTasks

\* ------------------------------------------------------------ Server.cleanup
\* What aclose() leaves of the exit stack: it pops and exits every context it
\* holds, whether or not one of the exits raises.
StackAfterClose(stack) == <<>>

\* Server.cleanup, lines 139-145: the state of a server after the call.
\* closeOk is whether exit_stack.aclose() returned rather than raised; when it
\* raised, lines 142-143 are skipped and the except clause only logs.
ServerAfterCleanup(s, closeOk) ==
    IF closeOk
    THEN [session |-> None, exit_stack |-> StackAfterClose(s.exit_stack), stdio_context |-> None]
    ELSE [s EXCEPT !.exit_stack = StackAfterClose(s.exit_stack)]

\* Lines 140-145 without the except clause: what aclose() raises leaves
\* cleanup.
CleanupRaisesUncaught(closeOk) == ~closeOk

\* Lines 144-145: does the call raise to its caller?  `except Exception`
\* catches what aclose() raised and only logs it.
CleanupRaises(closeOk) == FALSE

\* aclose() can raise only from the exit of a context it holds.
CloseOutcomes(s) == IF s.exit_stack = <<>> THEN {TRUE} ELSE {TRUE, FALSE}

\* One call of Server.cleanup on server i.
DoCleanup(i, closeOk) ==
    /\ srv' = [srv EXCEPT ![i] = ServerAfterCleanup(srv[i], closeOk)]
    /\ cleanupLog' = Append(cleanupLog, i)
    /\ cleanupPost' = [cleanupPost EXCEPT ![i] = Append(@, ServerAfterCleanup(srv[i], closeOk))]
    /\ released' = [released EXCEPT ![i] = @ \o Reverse(srv[i].exit_stack)]
    /\ closeFailed' = IF closeOk THEN closeFailed ELSE closeFailed + 1
    /\ cleanupRaised' = IF CleanupRaises(closeOk) THEN cleanupRaised + 1 ELSE cleanupRaised

\* Entering Agent.cleanup_servers from `caller`: the loop starts at the last
\* server (`reversed(self.servers)`).
EnterCleanupServers(caller) ==
    /\ pc' = "cleanup_servers"
    /\ idx' = NumServers
    /\ cont' = caller
    /\ cleanupCalls' = cleanupCalls + 1

\* send leaves its try block with outcome o: the finally clause runs.
GoFinally(o) ==
    /\ pending' = o
    /\ EnterCleanupServers("finally")

\* --------------------------------------------------------- Server.initialize
\* How far initialize gets.  stdio: "no_command" (line 36, shutil.which found
\* nothing), "fail_transport" (stdio_client, line 45), "fail_session"
\* (ClientSession, line 47), "fail_handshake" (session.initialize, line 48).
\* http: "fail_transport" (streamablehttp_client, line 56), "fail_handshake"
\* (session.initialize, line 59).
InitOutcomes(kind) ==
    IF kind = "stdio"
    THEN {"ok", "no_command", "fail_transport", "fail_session", "fail_handshake"}
    ELSE {"ok", "fail_transport", "fail_handshake"}

\* The contexts entered on the exit stack when initialize stops with `outcome`.
InitStack(kind, outcome) ==
    IF kind = "stdio"
    THEN CASE outcome \in {"no_command", "fail_transport"} -> <<>>
           [] outcome = "fail_session" -> <<"stdio_client">>
           [] OTHER -> <<"stdio_client", "ClientSession">>
    ELSE CASE outcome = "fail_transport" -> <<>>
           [] OTHER -> <<"streamablehttp_client">>

\* The exception initialize stops with.
InitError(outcome) ==
    CASE outcome = "ok" -> None
      [] outcome = "no_command" -> "ValueError"
      [] outcome = "fail_transport" -> "TransportError"
      [] outcome = "fail_session" -> "SessionError"
      [] outcome = "fail_handshake" -> "HandshakeError"

\* The failures raised inside the try blocks of initialize (lines 44-53 and
\* 55-64), whose except clause awaits self.cleanup() before re-raising.
CleansUpOnFailure(outcome) == outcome \in {"fail_transport", "fail_session", "fail_handshake"}

\* -------------------------------------------------------------- Agent.send
\* send is called: the try block is entered, the first loop starts.
SendStart ==
    /\ pc = "start"
    /\ entry = "send"
    /\ pc' = "initialize"
    /\ idx' = 1
    /\ UNCHANGED << entry, config, lockVars, srv, cont, sendVars, execVars, initLog,
                    cleanupVars, cleanupCalls, llmCalls, listCalls >>

\* Lines 215-217, server.initialize() returns: the session is kept.
InitializeOk ==
    /\ pc = "initialize"
    /\ idx <= NumServers
    /\ initLog' = Append(initLog, [server |-> idx, ok |-> TRUE, outcome |-> "ok", err |-> None])
    /\ srv' = [srv EXCEPT ![idx] = [@ EXCEPT !.session = Session,
                                            !.exit_stack = InitStack(config[idx].kind, "ok")]]
    /\ idx' = idx + 1
    /\ UNCHANGED << entry, config, lockVars, pc, cont, sendVars, execVars, cleanupVars,
                    cleanupCalls, llmCalls, listCalls >>

\* Lines 218-221 as `continue`: after a failed initialize the loop of line
\* 215 goes on to the next server.
InitializeNoCommandContinues ==
    /\ pc = "initialize"
    /\ idx <= NumServers
    /\ "no_command" \in InitOutcomes(config[idx].kind)
    /\ initLog' = Append(initLog, [server |-> idx, ok |-> FALSE, outcome |-> "no_command",
                                   err |-> InitError("no_command")])
    /\ idx' = idx + 1
    /\ UNCHANGED << entry, config, lockVars, srv, pc, cont, sendVars, execVars, cleanupVars,
                    cleanupCalls, llmCalls, listCalls >>

\* Lines 35-36: initialize raises ValueError before anything is acquired and
\* without calling cleanup; send's except clause (lines 218-221) takes over.
InitializeNoCommand ==
    /\ pc = "initialize"
    /\ idx <= NumServers
    /\ "no_command" \in InitOutcomes(config[idx].kind)
    /\ initLog' = Append(initLog, [server |-> idx, ok |-> FALSE, outcome |-> "no_command",
                                   err |-> InitError("no_command")])
    /\ EnterCleanupServers("except")
    /\ UNCHANGED << entry, config, lockVars, srv, sendVars, execVars, cleanupVars, llmCalls, listCalls >>

\* Lines 44-51 / 55-62: a step inside the try block raises; the contexts
\* entered so far stay on the exit stack and the except clause is entered.
InitializeFail(outcome) ==
    /\ pc = "initialize"
    /\ idx <= NumServers
    /\ outcome \in InitOutcomes(config[idx].kind)
    /\ CleansUpOnFailure(outcome)
    /\ initLog' = Append(initLog, [server |-> idx, ok |-> FALSE, outcome |-> outcome,
                                   err |-> InitError(outcome)])
    /\ srv' = [srv EXCEPT ![idx] = [@ EXCEPT !.exit_stack = InitStack(config[idx].kind, outcome)]]
    /\ pc' = "initialize_cleanup"
    /\ UNCHANGED << entry, config, lockVars, idx, cont, sendVars, execVars, cleanupVars,
                    cleanupCalls, llmCalls, listCalls >>

\* Lines 50-53 / 61-64 without the call of self.cleanup(): the exception is
\* re-raised with the entered contexts left on the exit stack.
InitializeCleanupSkipped(closeOk) ==
    /\ pc = "initialize_cleanup"
    /\ closeOk
    /\ EnterCleanupServers("except")
    /\ UNCHANGED << entry, config, lockVars, srv, sendVars, execVars, initLog, cleanupVars,
                    llmCalls, listCalls >>

\* Lines 52-53 / 63-64: initialize awaits self.cleanup() and re-raises (an
\* exception leaving cleanup would take the place of the one in flight);
\* send's except clause (lines 218-220) calls cleanup_servers.
InitializeCleanup(closeOk) ==
    /\ pc = "initialize_cleanup"
    /\ closeOk \in CloseOutcomes(srv[idx])
    /\ DoCleanup(idx, closeOk)
    /\ initLog' = [initLog EXCEPT ![Len(initLog)].err =
                       IF CleanupRaises(closeOk) THEN "CloseError" ELSE @]
    /\ EnterCleanupServers("except")
    /\ UNCHANGED << entry, config, lockVars, sendVars, execVars, llmCalls, listCalls >>

\* Line 215: the loop over the servers is exhausted; lines 223-224 start.
InitializeDone ==
    /\ pc = "initialize"
    /\ idx > NumServers
    /\ pc' = "list_all"
    /\ idx' = 1
    /\ UNCHANGED << entry, config, lockVars, srv, cont, sendVars, execVars, initLog,
                    cleanupVars, cleanupCalls, llmCalls, listCalls >>

\* ---------------------------------------------------- Agent.cleanup_servers
\* Lines 167-171 where a failed release ends the loop: the servers not yet
\* reached are left as they are.
CleanupServersStepAborting(closeOk) ==
    /\ pc = "cleanup_servers"
    /\ idx >= 1
    /\ closeOk \in CloseOutcomes(srv[idx])
    /\ DoCleanup(idx, closeOk)
    /\ idx' = IF closeOk THEN idx - 1 ELSE 0
    /\ UNCHANGED << entry, config, lockVars, pc, cont, sendVars, execVars, initLog,
                    cleanupCalls, llmCalls, listCalls >>

\* Lines 167-171: cleanup of the next server in reverse order.
CleanupServersStep(closeOk) ==
    /\ pc = "cleanup_servers"
    /\ idx >= 1
    /\ closeOk \in CloseOutcomes(srv[idx])
    /\ DoCleanup(idx, closeOk)
    /\ idx' = idx - 1
    /\ UNCHANGED << entry, config, lockVars, pc, cont, sendVars, execVars, initLog,
                    cleanupCalls, llmCalls, listCalls >>

\* The except clause of lines 218-221 without its `return`: after the
\* teardown, send goes on to line 223.
CleanupServersReturnExceptFallsThrough ==
    /\ pc = "cleanup_servers"
    /\ idx = 0
    /\ cont = "except"
    /\ pc' = "list_all"
    /\ idx' = 1
    /\ UNCHANGED << entry, config, lockVars, srv, cont, sendVars, execVars, initLog,
                    cleanupVars, cleanupCalls, llmCalls, listCalls >>

\* cleanup_servers returns to line 221: `return` (send's value is None), and
\* the finally clause of line 269 calls cleanup_servers again.
CleanupServersReturnExcept ==
    /\ pc = "cleanup_servers"
    /\ idx = 0
    /\ cont = "except"
    /\ GoFinally(ReturnNone)
    /\ UNCHANGED << entry, config, lockVars, srv, messages, final_res, llm_response, res,
                    execVars, initLog, cleanupVars, llmCalls, listCalls >>

\* cleanup_servers returns to line 270: send returns or raises what is pending.
CleanupServersReturnFinally ==
    /\ pc = "cleanup_servers"
    /\ idx = 0
    /\ cont = "finally"
    /\ pc' = "done"
    /\ UNCHANGED << entry, config, lockVars, srv, idx, cont, sendVars, execVars, initLog,
                    cleanupVars, cleanupCalls, llmCalls, listCalls >>

\* --------------------------------------------------------- Server.list_tools
\* Lines 79-92 without the check of line 79: session.list_tools() is awaited
\* whatever the session.
ListToolsOutcomesUnchecked(s) == {"ok", "ListError"}

\* Lines 79-92: "RuntimeError" when there is no session (line 80), "ListError"
\* when session.list_tools() raises, "ok" when the tools are returned.
ListToolsOutcomes(s) == IF s.session = None THEN {"RuntimeError"} ELSE {"ok", "ListError"}

\* session.list_tools() is reached only past the check of line 79.
ListCallsAfter(s) == IF s.session = None THEN listCalls ELSE listCalls + 1

\* The request send is called with, and the system message of lines 228-255
\* (its text, which embeds the tool descriptions, is one segment here).
UserRequest == "find all python files"
SystemMessage == [role |-> "system", content |-> <<"You are a helpful assistant with access to these tools">>]

\* Lines 224-226, one iteration: list_tools() of server idx.
ListAllStep(o) ==
    /\ pc = "list_all"
    /\ idx <= NumServers
    /\ o \in ListToolsOutcomes(srv[idx])
    /\ listCalls' = ListCallsAfter(srv[idx])
    /\ IF o = "ok"
       THEN /\ idx' = idx + 1
            /\ UNCHANGED << pc, cont, pending, cleanupCalls >>
       ELSE GoFinally(Raise(o))
    /\ UNCHANGED << entry, config, lockVars, srv, messages, final_res, llm_response, res,
                    execVars, initLog, cleanupVars, llmCalls >>

\* Lines 228-259: the transcript is seeded, final_res is the empty string.
ListAllDone ==
    /\ pc = "list_all"
    /\ idx > NumServers
    /\ messages' = << SystemMessage, [role |-> "user", content |-> <<UserRequest>>] >>
    /\ final_res' = <<"">>
    /\ pc' = "llm"
    /\ UNCHANGED << entry, config, lockVars, srv, idx, cont, pending, llm_response, res,
                    execVars, initLog, cleanupVars, cleanupCalls, llmCalls, listCalls >>

\* Line 261: the completion function returns c.
GetResponse(c) ==
    /\ pc = "llm"
    /\ llmCalls < MaxTurns
    /\ c \in CompletionsOf(entry)
    /\ llmCalls' = llmCalls + 1
    /\ llm_response' = c
    /\ pc' = "process"
    /\ UNCHANGED << entry, config, lockVars, srv, idx, cont, pending, messages, final_res, res,
                    execVars, initLog, cleanupVars, cleanupCalls, listCalls >>

\* Line 261: the completion function raises (the request to the service fails).
GetResponseFails ==
    /\ pc = "llm"
    /\ llmCalls < MaxTurns
    /\ llmCalls' = llmCalls + 1
    /\ GoFinally(Raise("APIError"))
    /\ UNCHANGED << entry, config, lockVars, srv, messages, final_res, llm_response, res,
                    execVars, initLog, cleanupVars, listCalls >>

\* ------------------------------------------- Agent._process_llm_response
\* An exception leaves _process_llm_response: inside send it is unhandled and
\* reaches the finally clause; called on its own, the call has raised.
ProcessRaises(e) ==
    IF entry = "send"
    THEN GoFinally(Raise(e))
    ELSE /\ pc' = "process_raised"
         /\ pending' = Raise(e)
         /\ UNCHANGED << idx, cont, cleanupCalls >>

\* _process_llm_response returns v: send goes on at line 264.
ProcessReturns(v) ==
    /\ res' = v
    /\ pc' = "after_process"

\* Lines 183-187 and 208-210: the completion is parsed.
ProcessParse ==
    /\ pc = "process"
    /\ CASE ParseOutcome(llm_response) = "plain" ->
               /\ ProcessReturns(<<llm_response>>)
               /\ UNCHANGED << idx, cont, pending, cleanupCalls, tool_name >>
         [] ParseOutcome(llm_response) = "TypeError" ->
               /\ ProcessRaises("TypeError")
               /\ UNCHANGED << res, tool_name >>
         [] OTHER ->
               /\ tool_name' = ToolOf(llm_response)
               /\ pc' = "resolve"
               /\ idx' = 1
               /\ UNCHANGED << res, cont, pending, cleanupCalls >>
    /\ UNCHANGED << entry, config, lockVars, srv, messages, final_res, llm_response,
                    arguments, retries, attempt, etOut, toolCalls, attemptErrs,
                    nDelays, invoked, initLog, cleanupVars, llmCalls, listCalls >>

\* Line 191 where the last server advertising the name wins.
AdvertisesLast(i, name) ==
    /\ name \in config[i].tools
    /\ \A j \in (i + 1)..Len(config) : name \notin config[j].tools

\* Line 191: does the server at position i advertise the tool?
Advertises(i, name) == name \in config[i].tools

\* Lines 189-193, one iteration: list_tools() of server idx, then either
\* execute_tool on it (default retries) or the next server.
ResolveStep(o) ==
    /\ pc = "resolve"
    /\ idx <= NumServers
    /\ o \in ListToolsOutcomes(srv[idx])
    /\ listCalls' = ListCallsAfter(srv[idx])
    /\ IF o # "ok"
       THEN /\ ProcessRaises(o)
            /\ UNCHANGED << arguments, retries, toolCalls, attemptErrs, nDelays >>
       ELSE IF Advertises(idx, tool_name)
       THEN /\ pc' = "execute_tool"
            /\ arguments' = ArgumentsOf(llm_response)
            /\ retries' = DefaultRetries
            /\ toolCalls' = <<>>
            /\ attemptErrs' = <<>>
            /\ nDelays' = 0
            /\ UNCHANGED << idx, cont, pending, cleanupCalls >>
       ELSE /\ idx' = idx + 1
            /\ UNCHANGED << pc, cont, pending, cleanupCalls, arguments, retries,
                            toolCalls, attemptErrs, nDelays >>
    /\ UNCHANGED << entry, config, lockVars, srv, messages, final_res, llm_response, res,
                    tool_name, attempt, etOut, invoked, initLog, cleanupVars, llmCalls >>

\* Line 207: no server advertises the tool.
ResolveNotFound ==
    /\ pc = "resolve"
    /\ idx > NumServers
    /\ ProcessReturns(FormatNotFound(tool_name))
    /\ UNCHANGED << entry, config, lockVars, srv, idx, cont, pending, messages, final_res,
                    llm_response, execVars, initLog, cleanupVars, cleanupCalls,
                    llmCalls, listCalls >>

\* ------------------------------------------------------- Server.execute_tool
\* Line 120: `while attempt < retries`.
LoopContinues(a, r) == a < r

\* Line 130 with `<=`: a delay follows the last attempt as well.
RetryAgainOffByOne(a, r) == a <= r

\* Line 130: `if attempt < retries` (after the increment of line 128).
RetryAgain(a, r) == a < r

\* Lines 116-119: the not-initialized check, then attempt = 0.
ExecuteToolCheck ==
    /\ pc = "execute_tool"
    /\ IF srv[idx].session = None
       THEN /\ etOut' = "RuntimeError"
            /\ pc' = "exec_raised"
            /\ UNCHANGED attempt
       ELSE /\ attempt' = 0
            /\ pc' = "exec_loop"
            /\ UNCHANGED etOut
    /\ UNCHANGED << entry, config, lockVars, srv, idx, cont, sendVars, tool_name, arguments,
                    retries, toolCalls, attemptErrs, nDelays, invoked, initLog,
                    cleanupVars, cleanupCalls, llmCalls, listCalls >>

\* One more call_tool attempt is recorded.
RecordAttempt ==
    /\ toolCalls' = Append(toolCalls, [turn |-> llmCalls, server |-> idx,
                                       tool |-> tool_name, arguments |-> arguments])
    /\ invoked' = [invoked EXCEPT ![tool_name] = @ \cup {idx}]

\* Lines 120-125: call_tool returns, execute_tool returns its result.
CallToolReturns(r) ==
    /\ pc = "exec_loop"
    /\ LoopContinues(attempt, retries)
    /\ r \in ResultsOf(entry)
    /\ RecordAttempt
    /\ etOut' = r
    /\ pc' = "exec_returned"
    /\ UNCHANGED << entry, config, lockVars, srv, idx, cont, sendVars, tool_name, arguments,
                    retries, attempt, attemptErrs, nDelays, initLog, cleanupVars,
                    cleanupCalls, llmCalls, listCalls >>

\* Lines 127-135: call_tool raises e; either a delay follows or e is re-raised.
CallToolFails(e) ==
    /\ pc = "exec_loop"
    /\ LoopContinues(attempt, retries)
    /\ e \in ToolErrors
    /\ RecordAttempt
    /\ attempt' = attempt + 1
    /\ attemptErrs' = Append(attemptErrs, e)
    /\ IF RetryAgain(attempt + 1, retries)
       THEN /\ pc' = "exec_sleep"
            /\ UNCHANGED etOut
       ELSE /\ pc' = "exec_raised"
            /\ etOut' = e
    /\ UNCHANGED << entry, config, lockVars, srv, idx, cont, sendVars, tool_name, arguments,
                    retries, nDelays, initLog, cleanupVars, cleanupCalls, llmCalls,
                    listCalls >>

\* Line 132: asyncio.sleep(delay) returns, the loop goes round.
Sleep ==
    /\ pc = "exec_sleep"
    /\ nDelays' = nDelays + 1
    /\ pc' = "exec_loop"
    /\ UNCHANGED << entry, config, lockVars, srv, idx, cont, sendVars, tool_name, arguments,
                    retries, attempt, etOut, toolCalls, attemptErrs, invoked,
                    initLog, cleanupVars, cleanupCalls, llmCalls, listCalls >>

\* Line 120 is false on entry (retries <= 0): the function ends without a
\* return statement, its value is None.
ExecLoopExit ==
    /\ pc = "exec_loop"
    /\ ~LoopContinues(attempt, retries)
    /\ etOut' = None
    /\ pc' = "exec_returned"
    /\ UNCHANGED << entry, config, lockVars, srv, idx, cont, sendVars, tool_name, arguments,
                    retries, attempt, toolCalls, attemptErrs, nDelays, invoked,
                    initLog, cleanupVars, cleanupCalls, llmCalls, listCalls >>

\* ------------------------------- Agent._process_llm_response, lines 193-205
\* Lines 195-201: the reply made of a result execute_tool returned; the
\* progress computation runs inside the try block, so what it raises is
\* caught by line 202.
ReplyForResult(r) ==
    IF ProgressOutcome(r) = "ok" THEN FormatResult(r) ELSE FormatError(ProgressOutcome(r))

\* Lines 202-205: the reply made of an exception execute_tool raised.
ReplyForFailure(e) == FormatError(e)

\* Lines 193-201: execute_tool returned.
ProcessToolReturned ==
    /\ pc = "exec_returned"
    /\ entry # "execute_tool"
    /\ ProcessReturns(ReplyForResult(etOut))
    /\ UNCHANGED << entry, config, lockVars, srv, idx, cont, pending, messages, final_res,
                    llm_response, execVars, initLog, cleanupVars, cleanupCalls,
                    llmCalls, listCalls >>

\* Lines 202-205 without the except clause: what execute_tool raises leaves
\* _process_llm_response.
ProcessToolRaisedPropagates ==
    /\ pc = "exec_raised"
    /\ entry # "execute_tool"
    /\ ProcessRaises(etOut)
    /\ UNCHANGED << entry, config, lockVars, srv, messages, final_res, llm_response, res,
                    execVars, initLog, cleanupVars, llmCalls, listCalls >>

\* Lines 202-205: execute_tool raised.
ProcessToolRaised ==
    /\ pc = "exec_raised"
    /\ entry # "execute_tool"
    /\ ProcessReturns(ReplyForFailure(etOut))
    /\ UNCHANGED << entry, config, lockVars, srv, idx, cont, pending, messages, final_res,
                    llm_response, execVars, initLog, cleanupVars, cleanupCalls,
                    llmCalls, listCalls >>

\* ------------------------------------------------ Agent.send, lines 264-268
\* Line 264: is the processed reply the terminating token?
IsEnd(r) == r = EndToken

\* Line 265 returning the reply just processed instead of the one kept.
ReturnValueLiteral(last, r) == r

\* Line 265: what send returns on the terminating token.
ReturnValue(last, r) == last

\* Lines 264-268 keeping only the latest reply: line 268 overwrites the
\* assistant message appended by the iteration before.
SendAfterProcessOverwrites ==
    /\ pc = "after_process"
    /\ entry = "send"
    /\ IF IsEnd(res)
       THEN /\ GoFinally(Return(ReturnValue(final_res, res)))
            /\ UNCHANGED << messages, final_res >>
       ELSE /\ final_res' = res
            /\ messages' = IF Len(messages) > 2
                           THEN [messages EXCEPT ![Len(messages)] = [role |-> "assistant", content |-> res]]
                           ELSE Append(messages, [role |-> "assistant", content |-> res])
            /\ pc' = "llm"
            /\ UNCHANGED << idx, cont, pending, cleanupCalls >>
    /\ UNCHANGED << entry, config, lockVars, srv, llm_response, res, execVars, initLog,
                    cleanupVars, llmCalls, listCalls >>

\* Lines 264-268: return on "end", otherwise keep and append the reply.
SendAfterProcess ==
    /\ pc = "after_process"
    /\ entry = "send"
    /\ IF IsEnd(res)
       THEN /\ GoFinally(Return(ReturnValue(final_res, res)))
            /\ UNCHANGED << messages, final_res >>
       ELSE /\ final_res' = res
            /\ messages' = Append(messages, [role |-> "assistant", content |-> res])
            /\ pc' = "llm"
            /\ UNCHANGED << idx, cont, pending, cleanupCalls >>
    /\ UNCHANGED << entry, config, lockVars, srv, llm_response, res, execVars, initLog,
                    cleanupVars, llmCalls, listCalls >>

\* ----------------------------------------------------------- specification
Next ==
    \/ SendStart
    \/ InitializeOk
    \/ InitializeNoCommand
    \/ \E o \in {"fail_transport", "fail_session", "fail_handshake"} : InitializeFail(o)
    \/ \E ok \in BOOLEAN : InitializeCleanup(ok)
    \/ InitializeDone
    \/ \E ok \in BOOLEAN : CleanupServersStep(ok)
    \/ CleanupServersReturnExcept
    \/ CleanupServersReturnFinally
    \/ \E o \in {"ok", "ListError", "RuntimeError"} : ListAllStep(o)
    \/ ListAllDone
    \/ \E c \in Completions : GetResponse(c)
    \/ GetResponseFails
    \/ ProcessParse
    \/ \E o \in {"ok", "ListError", "RuntimeError"} : ResolveStep(o)
    \/ ResolveNotFound
    \/ ExecuteToolCheck
    \/ \E r \in Results : CallToolReturns(r)
    \/ \E e \in ToolErrors : CallToolFails(e)
    \/ Sleep
    \/ ProcessToolReturned
    \/ ProcessToolRaised
    \/ SendAfterProcess

Spec == Init /\ [][Next]_vars

\* A whole send in which every call that is awaited completes, by returning
\* or by raising: the one flow of control always takes its next step.  (With
\* MaxTurns completions drawn, the run rests in the loop at line 261.)
SpecLive == Init /\ [][Next]_vars /\ WF_vars(Next)

\* A server after a successful initialize.
ConnectedServer(kind) ==
    [session |-> Session, exit_stack |-> InitStack(kind, "ok"), stdio_context |-> None]

\* One call of Server.execute_tool on a single server, idle or connected, with
\* any retries from 0 to MaxRetries.
InitExec ==
    /\ entry = "execute_tool"
    /\ config \in [1..1 -> ServerConfigs]
    /\ srv \in { [i \in 1..1 |-> s] : s \in {IdleServer, ConnectedServer(config[1].kind)} }
    /\ cleanupPost = [i \in 1..1 |-> <<>>]
    /\ released = [i \in 1..1 |-> <<>>]
    /\ pc = "execute_tool"
    /\ idx = 1
    /\ cont = "none"
    /\ pending = NoOutcome
    /\ messages = <<>>
    /\ final_res = <<>>
    /\ llm_response = None
    /\ res = <<>>
    /\ tool_name \in ToolNames
    /\ arguments = "{'path': '.'}"
    /\ retries \in 0..MaxRetries
    /\ attempt = 0
    /\ etOut = None
    /\ HistoryInit
    /\ NoTasks

NextExec ==
    \/ ExecuteToolCheck
    \/ \E r \in Results : CallToolReturns(r)
    \/ \E e \in ToolErrors : CallToolFails(e)
    \/ Sleep
    \/ ExecLoopExit

SpecExec == InitExec /\ [][NextExec]_vars

\* One call of Agent._process_llm_response on any completion, over a
\* configured list whose servers are each idle or connected.
InitProcess ==
    /\ entry = "process"
    /\ config \in ConfigLists
    /\ srv \in { [i \in 1..Len(config) |-> IF i \in c THEN ConnectedServer(config[i].kind) ELSE IdleServer]
                 : c \in SUBSET (1..Len(config)) }
    /\ cleanupPost = [i \in 1..Len(config) |-> <<>>]
    /\ released = [i \in 1..Len(config) |-> <<>>]
    /\ pc = "process"
    /\ idx = 0
    /\ cont = "none"
    /\ pending = NoOutcome
    /\ messages = <<>>
    /\ final_res = <<>>
    /\ llm_response \in Completions
    /\ res = <<>>
    /\ tool_name = None
    /\ arguments = None
    /\ retries = DefaultRetries
    /\ attempt = 0
    /\ etOut = None
    /\ HistoryInit
    /\ NoTasks

NextProcess ==
    \/ ProcessParse
    \/ \E o \in {"ok", "ListError", "RuntimeError"} : ResolveStep(o)
    \/ ResolveNotFound
    \/ ExecuteToolCheck
    \/ \E r \in Results : CallToolReturns(r)
    \/ \E e \in ToolErrors : CallToolFails(e)
    \/ Sleep
    \/ ProcessToolReturned
    \/ ProcessToolRaised

SpecProcess == InitProcess /\ [][NextProcess]_vars

\* -------------------------------------- Server.cleanup, concurrent callers
\* Several tasks call cleanup on the same server.  A call is followed through
\* `async with self._cleanup_lock` (line 139), the exits aclose() awaits one
\* after the other (line 141) and the return (lines 142-145).
NumTasks == 2

Tasks == 1..NumTasks

\* A task that has not called cleanup yet.
NewTask == [pc |-> "start", overlapped |-> FALSE, exc |-> FALSE, raised |-> FALSE, ret |-> "-"]

\* The states a server can be in when cleanup is called: idle, stopped
\* part-way through initialize, or connected.
ServerStates(kind) ==
    {IdleServer, ConnectedServer(kind)}
      \cup { [IdleServer EXCEPT !.exit_stack = InitStack(kind, o)] : o \in InitOutcomes(kind) \ {"ok"} }

\* Line 139 on an unlocked lock nobody waits for: acquire() takes the lock
\* without suspending.
CleanupAcquire(t) ==
    /\ entry = "cleanup"
    /\ tasks[t].pc = "start"
    /\ ~cleanup_lock.locked
    /\ cleanup_lock.waiters = <<>>
    /\ cleanup_lock' = [cleanup_lock EXCEPT !.locked = TRUE]
    /\ tasks' = [tasks EXCEPT ![t].pc = "locked"]
    /\ UNCHANGED << entry, config, srv, pc, idx, cont, sendVars, execVars, initLog,
                    cleanupVars, cleanupCalls, llmCalls, listCalls >>

\* Line 139 otherwise: the caller queues behind the lock.  Its call overlaps
\* the call of the task holding the lock.
CleanupWait(t) ==
    /\ entry = "cleanup"
    /\ tasks[t].pc = "start"
    /\ cleanup_lock.locked \/ cleanup_lock.waiters # <<>>
    /\ cleanup_lock' = [cleanup_lock EXCEPT !.waiters = Append(@, t)]
    /\ tasks' = [u \in Tasks |->
                    IF u = t THEN [tasks[u] EXCEPT !.pc = "waiting", !.overlapped = TRUE]
                    ELSE IF tasks[u].pc = "locked" THEN [tasks[u] EXCEPT !.overlapped = TRUE]
                    ELSE tasks[u]]
    /\ UNCHANGED << entry, config, srv, pc, idx, cont, sendVars, execVars, initLog,
                    cleanupVars, cleanupCalls, llmCalls, listCalls >>

\* The first waiter is woken by a release and takes the lock.
CleanupWake(t) ==
    /\ entry = "cleanup"
    /\ tasks[t].pc = "waiting"
    /\ ~cleanup_lock.locked
    /\ cleanup_lock.waiters # <<>>
    /\ Head(cleanup_lock.waiters) = t
    /\ cleanup_lock' = [locked |-> TRUE, waiters |-> Tail(cleanup_lock.waiters)]
    /\ tasks' = [tasks EXCEPT ![t].pc = "locked"]
    /\ UNCHANGED << entry, config, srv, pc, idx, cont, sendVars, execVars, initLog,
                    cleanupVars, cleanupCalls, llmCalls, listCalls >>

\* Line 141: aclose() pops the innermost context left and awaits its exit,
\* which returns (ok) or raises; the remaining contexts are still exited.
CleanupCloseStep(t, ok) ==
    /\ entry = "cleanup"
    /\ tasks[t].pc = "locked"
    /\ srv[1].exit_stack # <<>>
    /\ LET stack == srv[1].exit_stack
       IN  /\ srv' = [srv EXCEPT ![1].exit_stack = SubSeq(stack, 1, Len(stack) - 1)]
           /\ released' = [released EXCEPT ![1] = Append(@, stack[Len(stack)])]
    /\ tasks' = [tasks EXCEPT ![t].exc = @ \/ ~ok]
    /\ UNCHANGED << entry, config, pc, idx, cont, sendVars, execVars, initLog,
                    cleanup_lock, cleanupLog, cleanupPost, closeFailed, cleanupRaised,
                    cleanupCalls, llmCalls, listCalls >>

\* Lines 141-145 once the stack is empty: aclose() returns, or raises what an
\* exit raised; the lock is released and cleanup returns.
CleanupCloseEnd(t) ==
    /\ entry = "cleanup"
    /\ tasks[t].pc = "locked"
    /\ srv[1].exit_stack = <<>>
    /\ LET closeOk == ~tasks[t].exc
           after == ServerAfterCleanup(srv[1], closeOk)
       IN  /\ srv' = [srv EXCEPT ![1] = after]
           /\ cleanupPost' = [cleanupPost EXCEPT ![1] = Append(@, after)]
           /\ closeFailed' = IF closeOk THEN closeFailed ELSE closeFailed + 1
           /\ cleanupRaised' = IF CleanupRaises(closeOk) THEN cleanupRaised + 1 ELSE cleanupRaised
           /\ tasks' = [tasks EXCEPT ![t].pc = "done",
                                     ![t].raised = CleanupRaises(closeOk),
                                     ![t].ret = after.session]
    /\ cleanupLog' = Append(cleanupLog, 1)
    /\ cleanup_lock' = [cleanup_lock EXCEPT !.locked = FALSE]
    /\ UNCHANGED << entry, config, pc, idx, cont, sendVars, execVars, initLog,
                    released, cleanupCalls, llmCalls, listCalls >>

\* NumTasks tasks about to call cleanup on one server in any state.
InitCleanup ==
    /\ entry = "cleanup"
    /\ config \in [1..1 -> ServerConfigs]
    /\ srv \in { [i \in 1..1 |-> s] : s \in ServerStates(config[1].kind) }
    /\ cleanupPost = [i \in 1..1 |-> <<>>]
    /\ released = [i \in 1..1 |-> <<>>]
    /\ pc = "cleanup"
    /\ idx = 1
    /\ cont = "none"
    /\ pending = NoOutcome
    /\ messages = <<>>
    /\ final_res = <<>>
    /\ llm_response = None
    /\ res = <<>>
    /\ tool_name = None
    /\ arguments = None
    /\ retries = DefaultRetries
    /\ attempt = 0
    /\ etOut = None
    /\ HistoryInit
    /\ cleanup_lock = FreeLock
    /\ tasks = [t \in Tasks |-> NewTask]

NextCleanup ==
    \/ \E t \in Tasks : CleanupAcquire(t)
    \/ \E t \in Tasks : CleanupWait(t)
    \/ \E t \in Tasks : CleanupWake(t)
    \/ \E t \in Tasks, ok \in BOOLEAN : CleanupCloseStep(t, ok)
    \/ \E t \in Tasks : CleanupCloseEnd(t)

SpecCleanup == InitCleanup /\ [][NextCleanup]_vars

\* ------------------------------------------------------------------ claims
\* Some initialize call of this run has failed.
InitializeFailed == \E k \in DOMAIN initLog : ~initLog[k].ok

\* The servers whose initialize returned, in the order it did.
InitializedServers == { initLog[k].server : k \in { j \in DOMAIN initLog : initLog[j].ok } }

\* The cleanup calls made on the servers of set S, in order.
CleanupsOf(S) == SelectSeq(cleanupLog, LAMBDA i : i \in S)

\* n, n-1, ..., 1
Descending(n) == [j \in 1..n |-> n + 1 - j]

\* send has returned or raised.
SendDone == entry = "send" /\ pc = "done"

\* C1: when a server's initialize fails, every server that had initialized
\* before it has had cleanup invoked exactly once, in reverse initialization
\* order, by the time send returns its failed result.
C1_CleanupOnceInReverse ==
    (SendDone /\ InitializeFailed) =>
        CleanupsOf(InitializedServers) = Descending(Cardinality(InitializedServers))

\* C2: by the time send returns or raises, cleanup_servers has run exactly
\* once, whatever the exit path.
C2_CleanupServersOnce == SendDone => cleanupCalls = 1

\* C3: once an initialize has failed, the run never reaches the conversation
\* loop: no completion is requested, no list_tools and no call_tool is made,
\* no transcript is built, and send returns None.
C3_NoLoopAfterInitFailure ==
    InitializeFailed =>
        /\ pc \in {"initialize_cleanup", "cleanup_servers", "done"}
        /\ llmCalls = 0
        /\ listCalls = 0
        /\ toolCalls = <<>>
        /\ \A t \in ToolNames : invoked[t] = {}
        /\ messages = <<>>
        /\ pending \in {NoOutcome, ReturnNone}
        /\ (pc = "done" => pending = ReturnNone)

\* C3 witness: send has returned after the second server failed to
\* initialize, the first having initialized.
C3_Witness ==
    /\ SendDone
    /\ InitializeFailed
    /\ Len(initLog) = 2
    /\ initLog[1].ok
    /\ pending = ReturnNone

\* execute_tool, called on its own, has raised / has returned.
ExecRaised == entry = "execute_tool" /\ pc = "exec_raised"
ExecReturned == entry = "execute_tool" /\ pc = "exec_returned"

\* Every call_tool attempt made so far has failed.
AllAttemptsFailed == Len(attemptErrs) = Len(toolCalls)

\* C4: execute_tool with retries = N >= 1 on an initialized server whose
\* call_tool always fails makes exactly N attempts and N - 1 delays and then
\* raises the failure of the last attempt itself; while every attempt fails it
\* does not return.
C4_RetryExhaustion ==
    (entry = "execute_tool" /\ retries >= 1 /\ srv[1].session # None) =>
        /\ ExecRaised =>
              /\ Len(toolCalls) = retries
              /\ AllAttemptsFailed
              /\ nDelays = retries - 1
              /\ etOut \in ToolErrors
              /\ etOut = attemptErrs[retries]
        /\ (ExecReturned => ~AllAttemptsFailed)
        /\ Len(toolCalls) <= retries
        /\ nDelays <= retries - 1

\* C4 witness: retries = 2, two failed attempts with different failures, one
\* delay, and the call has raised.
C4_Witness ==
    /\ ExecRaised
    /\ srv[1].session # None
    /\ retries = 2
    /\ Len(toolCalls) = 2
    /\ nDelays = 1
    /\ attemptErrs = <<"ToolError1", "ToolError2">>

\* The reply that was processed when send returned came from the completion
\* "end"; the transcript's last assistant message, or "" when there is none.
LastReply == IF Len(messages) > 2 THEN messages[Len(messages)].content ELSE <<"">>

\* C5: on the completion "end" send leaves the loop and returns the last
\* reply appended to the transcript ("" when none was); it never returns
\* "end", and "end" is never appended to the transcript.
C5_EndReturnsLastReply ==
    entry = "send" =>
        /\ \A k \in DOMAIN messages : messages[k].content # <<"end">>
        /\ final_res # <<"end">>
        /\ pending.kind = "return" =>
              /\ llm_response = "end"
              /\ pending.val = LastReply
              /\ pending.val # <<"end">>
        /\ (llm_response = "end" /\ pc \notin {"process", "after_process"}) =>
              /\ pending.kind = "return"
              /\ pc \in {"cleanup_servers", "done"}

\* C5 witness: send has returned the second of two different replies.
C5_Witness ==
    /\ SendDone
    /\ pending.kind = "return"
    /\ Len(messages) = 4
    /\ messages[3].content # messages[4].content
    /\ pending.val = messages[4].content

\* The directive of the current completion was dispatched and every attempt
\* of the retry budget failed.
ToolFailedThisTurn ==
    /\ entry = "send"
    /\ toolCalls # <<>>
    /\ toolCalls[1].turn = llmCalls
    /\ Len(attemptErrs) = DefaultRetries

\* C6: a tool invocation that fails through the whole retry budget does not
\* abort send: the failure becomes the reply "Error executing tool: <e>",
\* which is appended as an assistant message, and the loop is back at the
\* completion call.
C6_ToolFailureIsReply ==
    ToolFailedThisTurn =>
        /\ pc \in {"exec_raised", "after_process", "llm"}
        /\ pending = NoOutcome
        /\ pc = "after_process" =>
              res = <<"Error executing tool: ", attemptErrs[DefaultRetries]>>
        /\ pc = "llm" =>
              messages[Len(messages)] =
                  [role |-> "assistant",
                   content |-> <<"Error executing tool: ", attemptErrs[DefaultRetries]>>]

\* C6 witness: after a failed invocation's reply was appended, the completion
\* function has been called again.
C6_Witness ==
    /\ entry = "send"
    /\ pc = "process"
    /\ llmCalls = 2
    /\ Len(messages) = 3
    /\ messages[3] = [role |-> "assistant", content |-> <<"Error executing tool: ", "ToolError2">>]
    /\ Len(attemptErrs) = DefaultRetries

\* The completion is a JSON object carrying both a "tool" and an "arguments"
\* field.
IsToolObject(text) == text \in {DirectiveListFiles, DirectiveReadFile}

\* C7: for every completion that is neither "end" nor an object carrying both
\* "tool" and "arguments", _process_llm_response raises nothing and returns
\* the completion text unchanged.
C7_NonDirectiveIsPlainReply ==
    (entry = "process" /\ llm_response # "end" /\ ~IsToolObject(llm_response)) =>
        /\ pc \in {"process", "after_process"}
        /\ pending = NoOutcome
        /\ (pc = "after_process" => res = <<llm_response>>)

\* The first server, in configuration order, advertising the name (0: none).
FirstAdvertiser(name) ==
    IF \E i \in 1..Len(config) : name \in config[i].tools
    THEN CHOOSE i \in 1..Len(config) :
            /\ name \in config[i].tools
            /\ \A j \in 1..(i - 1) : name \notin config[j].tools
    ELSE 0

\* C8: call_tool is attempted only on the first server, in configuration
\* order, that advertises the requested name: never on a later server that
\* advertises it too, and on the same server whenever the name is resolved
\* again.
C8_FirstMatchWins ==
    entry = "send" =>
        /\ \A k \in DOMAIN toolCalls : toolCalls[k].server = FirstAdvertiser(toolCalls[k].tool)
        /\ \A t \in ToolNames : invoked[t] \subseteq {FirstAdvertiser(t)}
        /\ pc \in {"execute_tool", "exec_loop", "exec_sleep", "exec_returned", "exec_raised"} =>
              idx = FirstAdvertiser(tool_name)

\* C8 witness: two servers advertise list_files; it was dispatched in the
\* first turn and again in the second, both times to the first server.
C8_Witness ==
    /\ entry = "send"
    /\ Len(config) = 2
    /\ \A i \in 1..2 : config[i].tools = {"list_files"}
    /\ Len(messages) = 3
    /\ messages[3].content = <<"Tool execution result: ", ResPlain>>
    /\ llmCalls = 2
    /\ pc = "exec_returned"
    /\ toolCalls = << [turn |-> 2, server |-> 1, tool |-> "list_files", arguments |-> "{'path': '.'}"] >>
    /\ invoked["list_files"] = {1}

\* The current completion is a directive naming a tool no server advertises.
ToolNotAdvertised ==
    /\ entry = "send"
    /\ IsToolObject(llm_response)
    /\ FirstAdvertiser(ToolOf(llm_response)) = 0

NotFoundMessage ==
    [role |-> "assistant",
     content |-> <<"No server found with tool: ", ToolOf(llm_response)>>]

HasDuplicates(s) == \E a, b \in DOMAIN s : a # b /\ s[a] = s[b]

\* C10: cleanup called again on a server changes nothing: the state it leaves
\* is the state the previous call left, and no transport resource is released
\* a second time.
C10_CleanupIdempotent ==
    \A i \in DOMAIN cleanupPost :
        /\ \A k \in 1..(Len(cleanupPost[i]) - 1) : cleanupPost[i][k + 1] = cleanupPost[i][k]
        /\ ~HasDuplicates(released[i])

\* The last initialize call of the run.
LastInit == initLog[Len(initLog)]

\* How far a failed initialize got, with the exception raised at that point.
OriginalFailures ==
    { <<"no_command", "ValueError">>, <<"fail_transport", "TransportError">>,
      <<"fail_session", "SessionError">>, <<"fail_handshake", "HandshakeError">> }

\* C11: Server.cleanup never raises to its caller, also when aclose() raises:
\* the failure is only logged, and the exception a failed initialize raises
\* is the one of the step that failed, not one of the cleanup.
C11_CleanupNeverRaises ==
    /\ cleanupRaised = 0
    /\ closeFailed <= Len(cleanupLog)
    /\ \A k \in DOMAIN initLog :
          ~initLog[k].ok => <<initLog[k].outcome, initLog[k].err>> \in OriginalFailures
    /\ pending.kind = "raise" => pending.val # <<"CloseError">>

\* C11 witness: the handshake failed, the cleanup inside initialize had its
\* aclose() raise, and initialize has raised the handshake failure to send.
C11_Witness ==
    /\ entry = "send"
    /\ pc = "cleanup_servers"
    /\ cont = "except"
    /\ closeFailed = 1
    /\ Len(cleanupLog) = 1
    /\ cleanupLog[1] = LastInit.server
    /\ LastInit.err = "HandshakeError"

\* An initialize call has failed and its exception has reached send.
InitErrorPropagated == entry = "send" /\ InitializeFailed /\ pc # "initialize_cleanup"

\* The exception of the failed initialize has just reached send's except
\* clause: cleanup_servers is entered and has cleaned nothing yet.
InitErrorJustPropagated ==
    /\ InitErrorPropagated
    /\ pc = "cleanup_servers"
    /\ cont = "except"
    /\ idx = Len(config)

\* Server i holds neither a session nor a transport resource.
IsIdle(i) == srv[i].session = None /\ srv[i].exit_stack = <<>>

\* C12 as claimed: whenever initialize fails, whatever the failure, cleanup
\* has been invoked on that server before the error propagates, and the
\* server is left idle.
C12_CleanupBeforeAnyInitError ==
    InitErrorPropagated =>
        /\ cleanupLog # <<>>
        /\ cleanupLog[1] = LastInit.server
        /\ IsIdle(LastInit.server)

\* C12 as amended: whenever initialize fails inside one of its try blocks
\* (transport, session or handshake), cleanup has been invoked on that server
\* before the error propagates; when it fails with the ValueError of line 36,
\* raised before anything is acquired, cleanup is not invoked; on every
\* failure path the server is left idle.
C12_CleanupBeforeInitError ==
    InitErrorPropagated =>
        /\ LastInit.outcome # "no_command" =>
              /\ cleanupLog # <<>>
              /\ cleanupLog[1] = LastInit.server
        /\ (InitErrorJustPropagated /\ LastInit.outcome # "no_command") =>
              /\ cleanupLog = <<LastInit.server>>
              /\ Len(released[LastInit.server]) =
                     Len(InitStack(config[LastInit.server].kind, LastInit.outcome))
        /\ (InitErrorJustPropagated /\ LastInit.outcome = "no_command") =>
              /\ cleanupLog = <<>>
              /\ released[LastInit.server] = <<>>
        /\ IsIdle(LastInit.server)

\* C12 witness: the handshake of a stdio server failed; when the error reaches
\* send, cleanup has run on that server and released both contexts.
C12_Witness ==
    /\ InitErrorJustPropagated
    /\ LastInit.outcome = "fail_handshake"
    /\ cleanupLog = <<LastInit.server>>
    /\ released[LastInit.server] = <<"ClientSession", "stdio_client">>
    /\ IsIdle(LastInit.server)

\* Any of the three operations: a whole send, one _process_llm_response call,
\* one execute_tool call.
InitAll == Init \/ InitExec \/ InitProcess

NextAll ==
    \/ Next
    \/ ExecLoopExit

SpecAll == InitAll /\ [][NextAll]_vars

\* Control is inside execute_tool, or has just left it.
InExecuteTool == pc \in {"execute_tool", "exec_loop", "exec_sleep", "exec_returned", "exec_raised"}

\* Every server up to position k holds a session.
ConnectedUpTo(k) == \A j \in 1..Len(config) : j <= k => srv[j].session # None

\* C13: on a server without a session, execute_tool and list_tools raise the
\* not-initialized RuntimeError before any transport call, attempt or delay;
\* and during a send neither is ever called on a server without a session.
C13_IdleServerNotUsed ==
    /\ (entry = "execute_tool" /\ srv[1].session = None) =>
          /\ pc \in {"execute_tool", "exec_raised"}
          /\ pc = "exec_raised" => etOut = "RuntimeError"
          /\ toolCalls = <<>>
          /\ attemptErrs = <<>>
          /\ nDelays = 0
    /\ entry = "process" =>
          /\ pc = "resolve" => (ConnectedUpTo(idx - 1) /\ listCalls = idx - 1)
          /\ (pc = "process_raised" /\ pending = Raise("RuntimeError")) =>
                /\ srv[idx].session = None
                /\ listCalls = idx - 1
                /\ toolCalls = <<>>
          /\ (pc = "process_raised" /\ pending = Raise("ListError")) =>
                (srv[idx].session # None /\ listCalls = idx)
          /\ (InExecuteTool \/ pc = "after_process") => ConnectedUpTo(idx)
          /\ etOut # "RuntimeError"
    /\ entry = "send" =>
          /\ (pc \in {"list_all", "resolve"} /\ idx <= Len(config)) => srv[idx].session # None
          /\ InExecuteTool => srv[idx].session # None
          /\ pending # Raise("RuntimeError")
          /\ etOut # "RuntimeError"

\* C13 witness: _process_llm_response reached a second server that holds no
\* session; list_tools raised RuntimeError there, after the one transport
\* call made on the first server.
C13_Witness ==
    /\ entry = "process"
    /\ pc = "process_raised"
    /\ pending = Raise("RuntimeError")
    /\ idx = 2
    /\ srv[1].session # None
    /\ srv[2].session = None
    /\ listCalls = 1
    /\ toolCalls = <<>>

\* One server; the first completion was the list_files directive, whose first
\* call_tool attempt returned; the second completion was "end"; send is over.
EndToEndRun ==
    /\ SendDone
    /\ Len(config) = 1
    /\ "list_files" \in config[1].tools
    /\ llmCalls = 2
    /\ llm_response = "end"
    /\ toolCalls # <<>>
    /\ toolCalls[1].turn = 1
    /\ toolCalls[1].tool = "list_files"
    /\ attemptErrs = <<>>

C15_SequentialInitialize ==
    entry = "send" =>
        /\ Len(initLog) <= Len(config)
        /\ \A k \in DOMAIN initLog : initLog[k].server = k
        /\ \A k \in DOMAIN initLog : k < Len(initLog) => initLog[k].ok
        /\ \A i \in 1..Len(config) :
              (srv[i].session # None \/ srv[i].exit_stack # <<>>) => i \in DOMAIN initLog
        /\ pc = "initialize_cleanup" => (idx = Len(initLog) /\ ~LastInit.ok)
        /\ (pc = "initialize" /\ idx <= Len(config)) => Len(initLog) = idx - 1

\* C15 witness: send is over, the first of two servers failed to initialize
\* and initialize was never called on the second.
C15_Witness ==
    /\ SendDone
    /\ Len(config) = 2
    /\ Len(initLog) = 1
    /\ ~initLog[1].ok
    /\ cleanupLog # <<>>

\* The cleanup calls made by cleanup_servers: all of cleanupLog but the call
\* a failed initialize made itself.
CleanupsByCleanupServers ==
    IF InitErrorPropagated /\ LastInit.outcome # "no_command"
    THEN Tail(cleanupLog)
    ELSE IF pc = "initialize_cleanup" THEN <<>> ELSE cleanupLog

\* C16: each call of cleanup_servers invokes cleanup on every configured
\* server, from the last to the first, whether or not a release failed on the
\* way.
C16_CleanupAllInReverse ==
    entry = "send" =>
        LET log == CleanupsByCleanupServers
            n == Len(config)
        IN  /\ \A k \in DOMAIN log : log[k] = n - ((k - 1) % n)
            /\ pc = "cleanup_servers" => Len(log) = (cleanupCalls - 1) * n + (n - idx)
            /\ pc = "done" => Len(log) = cleanupCalls * n
            /\ pc \notin {"cleanup_servers", "done"} => log = <<>>

\* C16 witness: of two servers, the release of the second (cleaned first)
\* failed, and cleanup was still invoked on the first.
C16_Witness ==
    /\ SendDone
    /\ Len(config) = 2
    /\ cleanupLog = <<2, 1>>
    /\ closeFailed = 1
    /\ srv[2].session # None
    /\ srv[1].session = None

\* C17: every return of Server.cleanup leaves the server idle, with its
\* session handle cleared, whatever state it was called in.
C17_CleanupLeavesIdle ==
    \A i \in DOMAIN cleanupPost :
        \A k \in DOMAIN cleanupPost[i] : cleanupPost[i][k].session = None

\* Two calls overlap when one waits for the lock the other holds.
Overlapped(t) == tasks[t].overlapped

\* The tasks inside the release section.
InRelease == { t \in Tasks : tasks[t].pc = "locked" }

\* Overlapping cleanup calls exclude each other, release every resource once
\* and return normally.
OverlapSerialized ==
    entry = "cleanup" =>
        /\ Cardinality(InRelease) <= 1
        /\ ~HasDuplicates(released[1])
        /\ \A t \in Tasks : tasks[t].pc = "done" => ~tasks[t].raised

\* C18: overlapping cleanup calls on one server exclude each other, release
\* the transport resources once, and each returns normally with the server
\* idle.
C18_OverlappingCleanup ==
    /\ OverlapSerialized
    /\ entry = "cleanup" =>
          \A t \in Tasks : (tasks[t].pc = "done" /\ Overlapped(t)) => tasks[t].ret = None

\* C19: on an initialized server, for every retries, execute_tool returns only
\* the result of a successful call_tool, at once after the first success, or
\* raises the failure of its last attempt; it makes at most `retries`
\* attempts.
C19_ReturnsResultOrRaises ==
    (entry = "execute_tool" /\ srv[1].session # None) =>
        /\ ExecReturned =>
              /\ toolCalls # <<>>
              /\ Len(attemptErrs) = Len(toolCalls) - 1
              /\ nDelays = Len(attemptErrs)
              /\ etOut \in Results
        /\ ExecRaised =>
              /\ toolCalls # <<>>
              /\ AllAttemptsFailed
              /\ etOut = attemptErrs[Len(attemptErrs)]
        /\ Len(toolCalls) <= retries

\* The invocation on the resolved server succeeded within the retry budget
\* and _process_llm_response has returned its reply.
ToolSucceeded ==
    /\ entry = "process"
    /\ pc = "after_process"
    /\ toolCalls # <<>>
    /\ Len(attemptErrs) < Len(toolCalls)

\* C20: whenever the resolved server's invocation succeeds within the retry
\* budget, the reply is "Tool execution result: <result>", for every result
\* including those carrying progress and total; never an error reply.
C20_SuccessIsResultReply ==
    ToolSucceeded =>
        /\ res = <<"Tool execution result: ", etOut>>
        /\ res[1] # "Error executing tool: "

\* The transcript as lines 257-258 seed it.
SeedTranscript == << SystemMessage, [role |-> "user", content |-> <<UserRequest>>] >>

\* The replies line 268 can append: a plain reply, a tool result, a tool
\* error, a reply naming a tool no server advertises.
IsReply(content) ==
    \/ /\ Len(content) = 1
       /\ content[1] \in SendCompletions \ {"end"}
    \/ \E r \in Results : content = FormatResult(r)
    \/ \E e \in ToolErrors : content = FormatError(e)
    \/ \E t \in ToolNames : content = FormatNotFound(t)

\* The loop iterations of this send that ended by appending their reply.
CompletedIterations == IF pc = "llm" THEN llmCalls ELSE llmCalls - 1

\* The transcript is the seed followed by one assistant message for each
\* completed non-terminal iteration.
TranscriptShape ==
    (entry = "send" /\ messages # <<>>) =>
        /\ SubSeq(messages, 1, 2) = SeedTranscript
        /\ Len(messages) = 2 + CompletedIterations
        /\ \A k \in 3..Len(messages) :
              /\ messages[k].role = "assistant"
              /\ IsReply(messages[k].content)

\* A step leaves the transcript alone, seeds it, or appends one assistant
\* message to it at line 268.
TranscriptStep ==
    \/ messages' = messages
    \/ /\ messages = <<>>
       /\ messages' = SeedTranscript
    \/ /\ pc = "after_process"
       /\ ~IsEnd(res)
       /\ messages' = Append(messages, [role |-> "assistant", content |-> res])

\* C21: the transcript of one send is append-only: it starts as [system
\* message, user request], each non-terminal iteration appends exactly one
\* assistant message, no message is ever modified, removed or reordered, and
\* its length is 2 plus the number of completed non-terminal iterations.
C21_TranscriptAppendOnly ==
    /\ []TranscriptShape
    /\ [][entry = "send" => TranscriptStep]_vars

\* C21 witness: send has returned on "end" after two iterations that appended
\* a tool result and then a tool error; nothing was appended for "end".
C21_Witness ==
    /\ SendDone
    /\ pending.kind = "return"
    /\ llmCalls = 3
    /\ Len(messages) = 4
    /\ messages[3].content = FormatResult(ResPlain)
    /\ \E e \in ToolErrors : messages[4].content = FormatError(e)

\* The completion function has just returned "end".
EndReturned == entry = "send" /\ pc = "process" /\ llm_response = "end"

\* send has terminated on the completion "end".
TerminatedOnEnd == SendDone /\ pending.kind = "return"

\* Every server is idle: no session handle.
AllIdle == \A i \in DOMAIN srv : srv[i].session = None

\* send terminates once the completion function has returned "end".
EndTerminates == EndReturned ~> TerminatedOnEnd

\* The loop of lines 260-268 is left only on "end" or by an exception: there
\* is no turn bound.
LoopLeftOnlyByEndOrRaise ==
    (SendDone /\ messages # <<>>) =>
        \/ pending.kind = "raise"
        \/ pending.kind = "return" /\ res = EndToken

\* A directive costs at most `retries` call_tool attempts.
AttemptsWithinRetries == entry = "send" => Len(toolCalls) <= retries

\* C22: every awaited call completing, send terminates once the completion
\* function returns "end", and then every server is idle; the loop is left
\* in no other way short of an exception, and each directive costs at most
\* `retries` invocation attempts.
C22_TerminatesIdle ==
    /\ EndTerminates
    /\ [](TerminatedOnEnd => AllIdle)
    /\ []LoopLeftOnlyByEndOrRaise
    /\ []AttemptsWithinRetries

====
